---- MODULE Spec2Model ----
(***************************************************************************)
(* Release-sync engine of sourceforge-dl (src/src/sourceforge_downloader.rs)*)
(*                                                                         *)
(* The model covers the scheduled cycle of start_get_latest_file_job       *)
(* (resolve, dedup check, detached spawn) and the transfer task            *)
(* download_file (create, ranged GET, chunked write, bounded retry, flush,  *)
(* notification).  Tasks interleave at every await point and at every      *)
(* file-system call: the tokio runtime is multi-threaded, so nothing in a  *)
(* task is atomic with respect to another task.                            *)
(*                                                                         *)
(* Environment: the feed, the origin server, the file system and the       *)
(* notifier.  Every call whose error the code propagates with `?` may fail;*)
(* the existence probe try_exists answers Ok(true), Ok(false) or, when the *)
(* file system cannot tell (EACCES, ENOTDIR, ..), Err.                      *)
(***************************************************************************)
EXTENDS Integers, Sequences, FiniteSets, TLC

(* ------------------------------ bounds --------------------------------- *)
\* number of scheduler ticks that fire
MaxTicks == 2
\* number of faults (failed calls, broken streams) the environment injects
\* into a run of the whole engine
MaxFaults == 1
\* length in bytes of a release artifact
ArtifactLen == 3

\* latest publish time (times are 0..MaxDate)
MaxDate == 2
\* largest number of entries of a feed
MaxItems == 2

(* ------------------------- program constants --------------------------- *)
\* let retry_limit = 5;
retry_limit == 5

Cycles == 1..MaxTicks
FileNames == {"f1", "f2"}
\* the absence of a file: a value no content equals (bytes are >= 0)
NoFile == <<-1>>
\* what a cycle has seen of its destination before its dedup check
Unchecked == <<-2>>
\* the name a cycle holds before it resolved one
NoName == "none"
\* content of a file that was there before: a byte no artifact contains
Stale == <<99>>
\* the byte a hole reads as when a handle writes beyond the end of file
Hole == 0

Max(a, b) == IF a > b THEN a ELSE b

NameIndex(n) == IF n = "f1" THEN 1 ELSE 2
\* the bytes the origin serves for the release named n
Artifact(n) == [i \in 1..ArtifactLen |-> 10 * NameIndex(n) + i]

VARIABLES
    files,        \* save_dir: file name -> content, or NoFile
    tickLimit,    \* number of ticks the scheduler fires in this run
    faultLimit,   \* number of faults the environment injects in this run
    faults,       \* number of faults injected so far
    ticks,        \* number of ticks fired so far
    cstate,       \* cycle -> state of the cycle's async block
    ctrace,       \* cycle -> sequence of the states it went through
    fmi,          \* cycle -> name of the resolved FileMetaInfo, or NoName
    seen,         \* cycle -> what the destination held at its dedup check
    probed,       \* cycle -> what try_exists answered at its dedup check
    spawned,      \* cycle -> number of transfer tasks it spawned
    pc,           \* transfer task of a cycle -> position in download_file
    retry_num,    \* transfer -> retry_num
    saved,        \* transfer -> saved_content_len
    pos,          \* transfer -> offset of its file handle
    stream,       \* transfer -> bytes the current response has yet to yield
    gets,         \* transfer -> number of GETs it issued
    lastGet,      \* transfer -> <<range start, bytes written so far>> of the last GET
    wrote,        \* transfer -> the bytes it wrote, in order
    flushed,      \* transfer -> file.flush() returned Ok
    failures,     \* transfer -> stream-read errors seen
    sends,        \* transfer -> notifier sends attempted
    delivered,    \* transfer -> what the notifier answered to the send
    outcome,      \* transfer -> how it went: what failed, or "ok"
    recA,         \* a FileMetaInfo: left operand of a comparison
    recB,         \* a FileMetaInfo: right operand of a comparison
    feed,         \* what the feed URL answers to get_latest_file
    result        \* what partial_cmp, eq and get_latest_file returned

cvars == <<ticks, cstate, ctrace, fmi, seen, probed, spawned>>
tvars == <<pc, retry_num, saved, pos, stream, gets, lastGet, wrote,
          flushed, failures, sends, delivered, outcome>>
env == <<tickLimit, faultLimit>>
pvars == <<recA, recB, feed, result>>
vars == <<files, env, faults, cvars, tvars, pvars>>

(* --------------------------- pure helpers ------------------------------ *)
\* Path::try_exists on the modelled save_dir; the probe itself answers or
\* fails (existence cannot be determined), whatever save_dir holds
Probes == {"answers", "fails"}
try_exists(fs, path, probe) ==
    IF probe = "fails" THEN "Err"
    ELSE IF fs[path] # NoFile THEN "OkTrue" ELSE "OkFalse"

\* a dedup check that also wants a non-empty file
AlreadyFetchedNonEmpty(fs, path, probe) ==
    try_exists(fs, path, probe) = "OkTrue" /\ Len(fs[path]) > 0
\* if let Ok(true) = save_path.try_exists(): Ok(false) and Err(_) do not
\* match, and both fall through to tokio::spawn
AlreadyFetched(fs, path, probe) == try_exists(fs, path, probe) = "OkTrue"

\* a cycle that spawns its transfer whatever the check said
AfterCheckAlwaysSpawn(fetched) == "Downloading"
\* the branch taken after the dedup check: return, or tokio::spawn
AfterCheck(fetched) == IF fetched THEN "Skipped" ELSE "Downloading"

\* a resolve error handled as if the release were already fetched
AfterResolveErrSkipped == "Skipped"
\* Err(e) => eprintln!(..): the match arm does nothing else, the block ends
AfterResolveErr == "Idle"

\* a cycle that awaits the task it spawned
Joined(p) == p \in {"none", "Ok", "Err"}
\* tokio::spawn(..): the JoinHandle is dropped, the task is never awaited, so
\* the cycle's block ends whatever the position p of its transfer
Detached(p) == TRUE

\* a retry counter that starts at 0
InitialRetryNumZero == 1 - 1
\* let mut retry_num = 1;
InitialRetryNum == 1

\* an open that keeps what the file held
OpenKeep(content) == IF content = NoFile THEN <<>> ELSE content
\* an open that creates nothing until the first write
FileCreateLazy(content) == content
\* File::create: the file is created, or truncated to length 0
FileCreate(content) == <<>>

\* a retry that starts over
RangeStartZero(saved_content_len) == 0
\* format!("bytes={}-", saved_content_len)
RangeStart(saved_content_len) == saved_content_len

\* the body of the origin's 416 Range Not Satisfiable answer ("416")
RangeNotSatisfiable == <<52, 49, 54>>
\* the body the origin sends for a GET with Range: bytes=start- (the origin
\* honours the header): the rest of the artifact from `start` on, and its
\* 416 error body when `start` is not below the artifact's length.  The
\* code looks at neither the status nor the length: whatever body comes is
\* streamed into the file.
Response(name, start) ==
    IF start >= ArtifactLen THEN RangeNotSatisfiable
    ELSE SubSeq(Artifact(name), start + 1, ArtifactLen)

\* a write in append mode
WriteAppend(content, offset, chunk) == content \o chunk
\* file.write_all(&chunk) through a handle at `offset`: the bytes land at the
\* handle's offset; a gap between the end of file and the offset reads as 0;
\* when no byte is written the file is left as it is, whatever the offset
WriteAt(content, offset, chunk) ==
    IF chunk = <<>> THEN content
    ELSE [i \in 1..Max(Len(content), offset + Len(chunk)) |->
             IF i > offset /\ i <= offset + Len(chunk) THEN chunk[i - offset]
             ELSE IF i <= Len(content) THEN content[i]
             ELSE Hole]

\* a counter that counts chunks instead of bytes
SavedPlusOne(saved_content_len, chunk) == saved_content_len + 1
\* saved_content_len += chunk.len() as u64
SavedAfter(saved_content_len, chunk) == saved_content_len + Len(chunk)

\* a limit test that lets one more attempt through
RetryExhaustedLate(n) == n > retry_limit
\* if retry_num >= retry_limit
RetryExhausted(n) == n >= retry_limit

\* an error path that removes the file it was writing
DroppedAndRemoved(content) == NoFile
\* download_file returns: `file` goes out of scope and is closed; nothing
\* removes or renames save_path
Dropped(content) == content

\* an error path that falls through to the notification
PropagateToSend == "send"
\* `?` and `return Err(..)`: download_file returns the error to its caller
Propagate == "Err"

\* a notification that is sent again when the notifier refused it
AfterSendRetry(answer) == IF answer = "failed" THEN "send" ELSE "Ok"
\* send_message: if let Err(e) = ..send_message(..).await { error!(..) }, it
\* returns (); download_file then returns Ok(()) whatever the answer
AfterSend(answer) == "Ok"

\* a success path that returns without notifying
AfterFlushSilent == "Ok"
\* after file.flush()?: self.send_message(&text).await
AfterFlush == "send"

(* ------------------- FileMetaInfo and the release feed ------------------ *)
\* Option<T>
None == [some |-> FALSE]
Some(x) == [some |-> TRUE, v |-> x]
\* Result<T, E>
Ok(x) == [ok |-> TRUE, v |-> x]
Err(e) == [ok |-> FALSE, err |-> e]

\* publish times, download links, MD5 texts (the empty text included), and
\* public URLs <<static url prefix, file name>>
Dates == 0..MaxDate
Urls == {"u1", "u2"}
Hashes == {<<>>, <<10, 11>>, <<12>>}
StaticUrls == {<<"repo", n>> : n \in FileNames}
\* struct FileMetaInfo
FileMetaInfo ==
    [pub_date : Dates, download_url : Urls, md5 : Hashes, name : FileNames,
     static_file_url : StaticUrls]

\* an equality that compares every field, as a derived PartialEq would
eqDerived(self, other) == self = other
\* impl PartialEq for FileMetaInfo: fn eq
eq(self, other) == Len(self.md5) > 0 /\ self.md5 = other.md5

\* impl PartialOrd for FileMetaInfo: fn partial_cmp; the branches are tested
\* in the order of the source, `le` first
partial_cmp(self, other) ==
    IF self.pub_date <= other.pub_date THEN "Less"
    ELSE IF self.pub_date = other.pub_date THEN "Equal"
    ELSE "Greater"

\* the text of a <pubDate>: a time written in RFC 2822 or in another format
DateTexts == [fmt : {"rfc2822", "other"}, t : Dates]
\* DateTime::parse_from_rfc2822
parse_from_rfc2822(text) ==
    IF text.fmt = "rfc2822" THEN Ok(text.t) ELSE Err("ParseError")

\* FileMetaInfo::new: the date is parsed, then the record is built
FileMetaInfoNew(pub_date, download_url, md5, name, static_file_url) ==
    LET d == parse_from_rfc2822(pub_date)
    IN  IF ~d.ok THEN Err(d.err)
        ELSE Ok([pub_date |-> d.v, download_url |-> download_url, md5 |-> md5,
                 name |-> name, static_file_url |-> static_file_url])

\* the title of an entry is a path, held as its segments
Titles == {<<>>, <<"..">>, <<"f1">>, <<"rom", "f2">>}
\* Path::file_name: the final segment, unless the path is empty or ends in ..
file_name(path) ==
    IF path = <<>> \/ path[Len(path)] = ".." THEN None
    ELSE Some(path[Len(path)])

\* the media:content / hash extension of an entry, by how much of the chain
\* media -> content -> first -> hash -> first -> value is there
HashDepth == 6
HashChains ==
    [depth : 0..(HashDepth - 1), md5 : {<<>>}]
        \cup [depth : {HashDepth}, md5 : Hashes]
\* the ok_or message of the first link of the chain that is absent
HashChainErr(depth) ==
    CASE depth = 0 -> "media not found"
      [] depth = 1 -> "content not found"
      [] depth = 2 -> "content first extension not found"
      [] depth = 3 -> "hash not found"
      [] depth = 4 -> "hash first extension not found"
      [] OTHER     -> "md5 not found"

\* an <item> of the feed
Items ==
    [pub_date : {None} \cup {Some(t) : t \in DateTexts},
     link : {None} \cup {Some(u) : u \in Urls},
     hash : HashChains,
     title : {None} \cup {Some(t) : t \in Titles}]
CompleteItem ==
    [pub_date |-> Some([fmt |-> "rfc2822", t |-> MaxDate]), link |-> Some("u1"),
     hash |-> [depth |-> HashDepth, md5 |-> <<12>>], title |-> Some(<<"f1">>)]
BareItem ==
    [pub_date |-> None, link |-> None, hash |-> [depth |-> 0, md5 |-> <<>>],
     title |-> None]
\* what the feed URL answers: no response, a body that is not RSS, or a
\* channel of 0..MaxItems items (any first item, then complete or bare ones)
NoResponse == [fetched |-> FALSE, rss |-> FALSE, items |-> <<>>]
NotRss == [fetched |-> TRUE, rss |-> FALSE, items |-> <<>>]
Channel(items) == [fetched |-> TRUE, rss |-> TRUE, items |-> items]
ItemLists ==
    {<<>>} \cup
    UNION {{<<i>> \o tail : i \in Items}
              : tail \in UNION {[1..k -> {CompleteItem, BareItem}]
                                   : k \in 0..(MaxItems - 1)}}
Feeds == {NoResponse, NotRss} \cup {Channel(l) : l \in ItemLists}

\* a resolve that takes the newest entry from the end of the channel
last(items) == IF items = <<>> THEN None ELSE Some(items[Len(items)])
\* channel.items.first()
first(items) == IF items = <<>> THEN None ELSE Some(items[1])

\* get_latest_file: every `?` in the order of the source
get_latest_file(fd, prefix) ==
    IF ~fd.fetched THEN Err("request failed")
    ELSE IF ~fd.rss THEN Err("rss parse failed")
    ELSE IF ~first(fd.items).some THEN Err("latest rom not found")
    ELSE LET item == first(fd.items).v
         IN  IF ~item.pub_date.some THEN Err("pub date not found")
             ELSE IF ~item.link.some THEN Err("link not found")
             ELSE IF item.hash.depth < HashDepth
                  THEN Err(HashChainErr(item.hash.depth))
             ELSE IF ~item.title.some THEN Err("title not found")
             ELSE IF ~file_name(item.title.v).some
                  THEN Err("file name not found")
             ELSE LET name == file_name(item.title.v).v
                  IN  FileMetaInfoNew(item.pub_date.v, item.link.v,
                                      item.hash.md5, name, <<prefix, name>>)

(* ------------------------------ Init ----------------------------------- *)
\* what save_dir may hold for a name before the engine starts: nothing, or
\* a file left by an earlier run or by someone else
Leftover(n) == {NoFile, Stale}
\* the same, with an empty file and a file longer than the artifact
PreExisting(n) == {NoFile, <<>>, Stale, Artifact(n) \o Stale}

\* the operands and the feed while the engine model runs: not used by it
BlankInfo ==
    [pub_date |-> 0, download_url |-> "u1", md5 |-> <<>>, name |-> "f1",
     static_file_url |-> <<"repo", "f1">>]
NoInput ==
    /\ recA = BlankInfo
    /\ recB = BlankInfo
    /\ feed = NoResponse
    /\ result = [op |-> "none"]

InitRun ==
    /\ faults = 0
    /\ ticks = 0
    /\ cstate = [c \in Cycles |-> "Idle"]
    /\ ctrace = [c \in Cycles |-> <<"Idle">>]
    /\ fmi = [c \in Cycles |-> NoName]
    /\ seen = [c \in Cycles |-> Unchecked]
    /\ probed = [c \in Cycles |-> "none"]
    /\ spawned = [c \in Cycles |-> 0]
    /\ pc = [c \in Cycles |-> "none"]
    /\ retry_num = [c \in Cycles |-> 0]
    /\ saved = [c \in Cycles |-> 0]
    /\ pos = [c \in Cycles |-> 0]
    /\ stream = [c \in Cycles |-> <<>>]
    /\ gets = [c \in Cycles |-> 0]
    /\ lastGet = [c \in Cycles |-> <<0, 0>>]
    /\ wrote = [c \in Cycles |-> <<>>]
    /\ flushed = [c \in Cycles |-> FALSE]
    /\ failures = [c \in Cycles |-> 0]
    /\ sends = [c \in Cycles |-> 0]
    /\ delivered = [c \in Cycles |-> "none"]
    /\ outcome = [c \in Cycles |-> "none"]

\* the whole engine: several ticks, a few faults
Init ==
    /\ tickLimit = MaxTicks
    /\ faultLimit = MaxFaults
    /\ files \in {f \in [FileNames -> UNION {Leftover(n) : n \in FileNames}] :
                     \A n \in FileNames : f[n] \in Leftover(n)}
    /\ InitRun
    /\ NoInput

\* several ticks, no fault
InitCycles ==
    /\ tickLimit = MaxTicks
    /\ faultLimit = 0
    /\ files \in {f \in [FileNames -> UNION {PreExisting(n) : n \in FileNames}] :
                     \A n \in FileNames : f[n] \in PreExisting(n)}
    /\ InitRun
    /\ NoInput

\* one tick, hence one transfer at most, and every fault it can meet
InitTransfer ==
    /\ tickLimit = 1
    /\ faultLimit = retry_limit + 1
    /\ files \in {f \in [FileNames -> UNION {PreExisting(n) : n \in FileNames}] :
                     \A n \in FileNames : f[n] \in PreExisting(n)}
    /\ InitRun
    /\ NoInput

\* the environment injects one more fault
Fault ==
    /\ faults < faultLimit
    /\ faults' = faults + 1

(* ------------------------------ cycle ---------------------------------- *)
Goto(c, s) ==
    /\ cstate' = [cstate EXCEPT ![c] = s]
    /\ ctrace' = [ctrace EXCEPT ![c] = Append(@, s)]

\* the scheduler fires the routine: Idle -> Resolving
Tick ==
    /\ ticks < tickLimit
    /\ ticks' = ticks + 1
    /\ Goto(ticks + 1, "Resolving")
    /\ UNCHANGED <<files, env, pvars, faults, fmi, seen, probed, spawned, tvars>>

\* get_latest_file returned Ok(fmi): Resolving -> Checking
ResolveOk(c) ==
    /\ cstate[c] = "Resolving"
    /\ \E n \in FileNames : fmi' = [fmi EXCEPT ![c] = n]
    /\ Goto(c, "Checking")
    /\ UNCHANGED <<files, env, pvars, faults, ticks, seen, probed, spawned, tvars>>

\* get_latest_file returned Err: eprintln, the cycle ends
ResolveErr(c) ==
    /\ cstate[c] = "Resolving"
    /\ Goto(c, AfterResolveErr)
    /\ UNCHANGED <<files, env, pvars, faults, ticks, fmi, seen, probed, spawned, tvars>>

\* the dedup check, then either `return` or tokio::spawn of download_file
Check(c) ==
    /\ cstate[c] = "Checking"
    /\ seen' = [seen EXCEPT ![c] = files[fmi[c]]]
    /\ \E probe \in Probes :
        /\ IF probe = "fails" THEN Fault ELSE UNCHANGED faults
        /\ probed' = [probed EXCEPT ![c] = try_exists(files, fmi[c], probe)]
        /\ LET next == AfterCheck(AlreadyFetched(files, fmi[c], probe)) IN
            /\ Goto(c, next)
            /\ IF next = "Downloading"
               THEN /\ spawned' = [spawned EXCEPT ![c] = @ + 1]
                    /\ pc' = [pc EXCEPT ![c] = "create"]
               ELSE UNCHANGED <<spawned, pc>>
    /\ UNCHANGED <<files, env, pvars, ticks, fmi, retry_num, saved, pos,
                   stream, gets, lastGet, wrote, flushed, failures, sends,
                   delivered, outcome>>

\* the async block of the cycle ends: back to Idle
Return(c) ==
    /\ cstate[c] \in {"Skipped", "Downloading"}
    /\ Detached(pc[c])
    /\ Goto(c, "Idle")
    /\ UNCHANGED <<files, env, pvars, faults, ticks, fmi, seen, probed, spawned, tvars>>

(* ----------------------------- transfer -------------------------------- *)
\* a failed call handled like a broken stream: the loop goes round again
FailRetries(c, what) ==
    /\ Fault
    /\ pc' = [pc EXCEPT ![c] = "request"]
    /\ outcome' = [outcome EXCEPT ![c] = what]

\* a call fails and the `?` makes download_file return the error
Fail(c, what) ==
    /\ Fault
    /\ pc' = [pc EXCEPT ![c] = Propagate]
    /\ outcome' = [outcome EXCEPT ![c] = what]

\* retry_limit, retry_num, File::create(save_path)?, saved_content_len
Create(c) ==
    /\ pc[c] = "create"
    /\ retry_num' = [retry_num EXCEPT ![c] = InitialRetryNum]
    /\ saved' = [saved EXCEPT ![c] = 0]
    /\ pos' = [pos EXCEPT ![c] = 0]
    /\ \/ /\ files' = [files EXCEPT ![fmi[c]] = FileCreate(@)]
          /\ pc' = [pc EXCEPT ![c] = "request"]
          /\ UNCHANGED <<outcome, faults>>
       \/ /\ Fail(c, "create")
          /\ UNCHANGED files
    /\ UNCHANGED <<env, pvars, cvars, stream, gets, lastGet, wrote, flushed,
                   failures, sends, delivered>>

\* the GET is built with its Range header (`.build()?`) and handed to
\* execute: it is on the wire and download_file waits for the response;
\* when the request cannot be built no GET is issued
Request(c) ==
    /\ pc[c] = "request"
    /\ LET start == RangeStart(saved[c]) IN
        \/ /\ gets' = [gets EXCEPT ![c] = @ + 1]
           /\ lastGet' = [lastGet EXCEPT ![c] = <<start, Len(wrote[c])>>]
           /\ pc' = [pc EXCEPT ![c] = "response"]
           /\ UNCHANGED <<files, outcome, faults>>
        \/ /\ Fail(c, "request")
           /\ files' = [files EXCEPT ![fmi[c]] = Dropped(@)]
           /\ UNCHANGED <<gets, lastGet>>
    /\ UNCHANGED <<env, pvars, cvars, retry_num, saved, pos, stream, wrote,
                   flushed, failures, sends, delivered>>

\* execute(req).await? returns: the response to the GET, or an error
Execute(c) ==
    /\ pc[c] = "response"
    /\ \/ /\ stream' = [stream EXCEPT ![c] = Response(fmi[c], lastGet[c][1])]
          /\ pc' = [pc EXCEPT ![c] = "stream"]
          /\ UNCHANGED <<files, outcome, faults>>
       \/ /\ Fail(c, "request")
          /\ files' = [files EXCEPT ![fmi[c]] = Dropped(@)]
          /\ UNCHANGED stream
    /\ UNCHANGED <<env, pvars, cvars, retry_num, saved, pos, gets, lastGet,
                   wrote, flushed, failures, sends, delivered>>

\* stream.next() yields Ok(chunk): write_all, then count the bytes
ReadChunk(c) ==
    /\ pc[c] = "stream"
    /\ stream[c] # <<>>
    /\ \E k \in 1..Len(stream[c]) :
        LET chunk == SubSeq(stream[c], 1, k) IN
        /\ stream' = [stream EXCEPT ![c] = SubSeq(@, k + 1, Len(@))]
        /\ \/ /\ files' = [files EXCEPT ![fmi[c]] = WriteAt(@, pos[c], chunk)]
              /\ pos' = [pos EXCEPT ![c] = @ + k]
              /\ wrote' = [wrote EXCEPT ![c] = @ \o chunk]
              /\ saved' = [saved EXCEPT ![c] = SavedAfter(@, chunk)]
              /\ UNCHANGED <<pc, outcome, faults>>
           \* write_all fails after j < k bytes went out
           \/ \E j \in 0..(k - 1) :
              /\ files' = [files EXCEPT ![fmi[c]] =
                               Dropped(WriteAt(@, pos[c], SubSeq(chunk, 1, j)))]
              /\ pos' = [pos EXCEPT ![c] = @ + j]
              /\ wrote' = [wrote EXCEPT ![c] = @ \o SubSeq(chunk, 1, j)]
              /\ Fail(c, "write")
              /\ UNCHANGED saved
    /\ UNCHANGED <<env, pvars, cvars, retry_num, gets, lastGet, flushed, failures,
                   sends, delivered>>

\* stream.next() yields Err(e): give up at the limit, else retry
ReadError(c) ==
    /\ pc[c] = "stream"
    /\ Fault
    /\ failures' = [failures EXCEPT ![c] = @ + 1]
    /\ IF RetryExhausted(retry_num[c])
       THEN /\ pc' = [pc EXCEPT ![c] = Propagate]
            /\ outcome' = [outcome EXCEPT ![c] = "stream"]
            /\ files' = [files EXCEPT ![fmi[c]] = Dropped(@)]
            /\ UNCHANGED retry_num
       ELSE /\ retry_num' = [retry_num EXCEPT ![c] = @ + 1]
            /\ pc' = [pc EXCEPT ![c] = "request"]
            /\ UNCHANGED <<outcome, files>>
    /\ UNCHANGED <<env, pvars, cvars, saved, pos, stream, gets, lastGet,
                   wrote, flushed, sends, delivered>>

\* stream.next() yields None: break 'download_loop
ReadEnd(c) ==
    /\ pc[c] = "stream"
    /\ stream[c] = <<>>
    /\ pc' = [pc EXCEPT ![c] = "flush"]
    /\ UNCHANGED <<files, env, pvars, faults, cvars, retry_num, saved, pos, stream,
                   gets, lastGet, wrote, flushed, failures, sends, delivered, outcome>>

\* file.flush()?
Flush(c) ==
    /\ pc[c] = "flush"
    /\ \/ /\ flushed' = [flushed EXCEPT ![c] = TRUE]
          /\ pc' = [pc EXCEPT ![c] = AfterFlush]
          /\ UNCHANGED <<files, outcome, faults>>
       \/ /\ Fail(c, "flush")
          /\ files' = [files EXCEPT ![fmi[c]] = Dropped(@)]
          /\ UNCHANGED flushed
    /\ UNCHANGED <<env, pvars, cvars, retry_num, saved, pos, stream,
                   gets, lastGet, wrote, failures, sends, delivered>>

\* self.send_message(&text).await: the message goes to the notifier and
\* download_file waits for the answer
Send(c) ==
    /\ pc[c] = "send"
    /\ sends' = [sends EXCEPT ![c] = @ + 1]
    /\ pc' = [pc EXCEPT ![c] = "sent"]
    /\ UNCHANGED <<files, env, pvars, faults, cvars, retry_num, saved, pos,
                   stream, gets, lastGet, wrote, flushed, failures, delivered,
                   outcome>>

\* the notifier answers; an Err is logged by send_message; Ok(())
Answer(c) ==
    /\ pc[c] = "sent"
    /\ \E answer \in {"ok", "failed"} :
        /\ IF answer = "failed" THEN Fault ELSE UNCHANGED faults
        /\ delivered' = [delivered EXCEPT ![c] = answer]
        /\ pc' = [pc EXCEPT ![c] = AfterSend(answer)]
        /\ outcome' = [outcome EXCEPT ![c] =
                           IF pc'[c] = "Ok" THEN "ok" ELSE @]
    /\ UNCHANGED <<files, env, pvars, cvars, retry_num, saved, pos, stream,
                   gets, lastGet, wrote, flushed, failures, sends>>

(* --------------------------- specification ----------------------------- *)
Next ==
    \/ Tick
    \/ \E c \in Cycles : ResolveOk(c)
    \/ \E c \in Cycles : ResolveErr(c)
    \/ \E c \in Cycles : Check(c)
    \/ \E c \in Cycles : Return(c)
    \/ \E c \in Cycles : Create(c)
    \/ \E c \in Cycles : Request(c)
    \/ \E c \in Cycles : Execute(c)
    \/ \E c \in Cycles : ReadChunk(c)
    \/ \E c \in Cycles : ReadError(c)
    \/ \E c \in Cycles : ReadEnd(c)
    \/ \E c \in Cycles : Flush(c)
    \/ \E c \in Cycles : Send(c)
    \/ \E c \in Cycles : Answer(c)

\* the engine where no call fails and no stream breaks
NextCycles ==
    \/ Tick
    \/ \E c \in Cycles : ResolveOk(c)
    \/ \E c \in Cycles : ResolveErr(c)
    \/ \E c \in Cycles : Check(c)
    \/ \E c \in Cycles : Return(c)
    \/ \E c \in Cycles : Create(c)
    \/ \E c \in Cycles : Request(c)
    \/ \E c \in Cycles : Execute(c)
    \/ \E c \in Cycles : ReadChunk(c)
    \/ \E c \in Cycles : ReadEnd(c)
    \/ \E c \in Cycles : Flush(c)
    \/ \E c \in Cycles : Send(c)
    \/ \E c \in Cycles : Answer(c)

\* the whole engine, with faults
Spec == Init /\ [][Next]_vars

\* one transfer, with every fault it can meet
SpecTransfer == InitTransfer /\ [][Next]_vars

\* overlapping cycles and their transfers, in an environment without faults
SpecCycles == InitCycles /\ [][NextCycles]_vars

\* the operations on FileMetaInfo and the feed, applied to any operands
InitPure ==
    /\ tickLimit = 0
    /\ faultLimit = 0
    /\ files = [n \in FileNames |-> NoFile]
    /\ InitRun
    /\ result = [op |-> "none"]
    /\ \/ recA \in FileMetaInfo /\ recB \in FileMetaInfo /\ feed = NoResponse
       \/ feed \in Feeds /\ recA = BlankInfo /\ recB = BlankInfo

\* recA.partial_cmp(&recB)
Compare ==
    /\ result' = [op |-> "partial_cmp", v |-> partial_cmp(recA, recB)]
    /\ UNCHANGED <<files, env, faults, cvars, tvars, recA, recB, feed>>

\* recA == recB
Equate ==
    /\ result' = [op |-> "eq", v |-> eq(recA, recB)]
    /\ UNCHANGED <<files, env, faults, cvars, tvars, recA, recB, feed>>

\* self.get_latest_file().await
Resolve ==
    /\ result' = [op |-> "get_latest_file", v |-> get_latest_file(feed, "repo")]
    /\ UNCHANGED <<files, env, faults, cvars, tvars, recA, recB, feed>>

NextPure == Compare \/ Equate \/ Resolve

SpecPure == InitPure /\ [][NextPure]_vars

(* ------------------------------ claims --------------------------------- *)
Resolved(c) == fmi[c] # NoName
Checked(c) == seen[c] # Unchecked
SawFile(c) == Checked(c) /\ seen[c] # NoFile

\* C1 (as stated): no two transfer tasks are ever created for the same
\* destination path, whatever the interleaving of ticks and transfers.
C1_OneTransferPerPath ==
    \A c, d \in Cycles :
        (c # d /\ spawned[c] > 0 /\ spawned[d] > 0) => fmi[c] # fmi[d]

\* C2 (as stated): a cycle whose dedup check found a file at the destination, of whatever
\* size or content, spawns no transfer task and issues no GET.
C2_ExistingFileSkips ==
    \A c \in Cycles :
        SawFile(c) => (spawned[c] = 0 /\ pc[c] = "none" /\ gets[c] = 0)


IsPrefix(s, t) == Len(s) <= Len(t) /\ s = SubSeq(t, 1, Len(s))
PathAborted == <<"Idle", "Resolving", "Idle">>
PathSkipped == <<"Idle", "Resolving", "Checking", "Skipped", "Idle">>
PathDownloading == <<"Idle", "Resolving", "Checking", "Downloading", "Idle">>

\* C3 (as stated): a cycle goes through Idle, Resolving, Idle (resolution error), or
\* Idle, Resolving, Checking, Skipped, Idle, or Idle, Resolving, Checking,
\* Downloading, Idle; it launches exactly one transfer when resolve succeeded
\* and the destination was absent at its check, and none in any other case.
C3_CycleStateMachine ==
    \A c \in Cycles :
        /\ \/ IsPrefix(ctrace[c], PathAborted)
           \/ IsPrefix(ctrace[c], PathSkipped)
           \/ IsPrefix(ctrace[c], PathDownloading)
        /\ spawned[c] = IF Resolved(c) /\ seen[c] = NoFile THEN 1 ELSE 0
        /\ (spawned[c] = 1) = (Len(ctrace[c]) >= 4 /\ ctrace[c][4] = "Downloading")
        /\ (pc[c] # "none") = (spawned[c] = 1)


\* C4: whatever the position of the transfers, and of the transfer it
\* spawned among them, a cycle that passed its check can end (back to Idle),
\* a cycle that resolved can do its check, and the next tick can fire:
\* nothing in a cycle or in the scheduler waits for a transfer.
C4_CycleNeverWaits ==
    /\ \A c \in Cycles :
        /\ cstate[c] \in {"Skipped", "Downloading"} => ENABLED Return(c)
        /\ cstate[c] = "Checking" => ENABLED Check(c)
        /\ cstate[c] = "Resolving" => ENABLED ResolveOk(c)
    /\ ticks < tickLimit => ENABLED Tick

\* a cycle is back to Idle and a later cycle has done its check while the
\* transfer of the first is still reading its stream
C4_Witness ==
    \E c, d \in Cycles :
        /\ c < d
        /\ ctrace[c] = PathDownloading /\ pc[c] = "stream"
        /\ Checked(d)

Terminated(c) == pc[c] \in {"Ok", "Err"}
\* a call other than a read of the stream failed
OtherFault(c) == outcome[c] \in {"create", "request", "write", "flush"}

\* C5 (as stated): a transfer whose stream broke fewer times than the limit, and that met
\* no other fault, returns success; the file then holds the artifact's bytes,
\* in order, none missing or repeated, and it used one retry per break.
C5_ResumeCompletes ==
    \A c \in Cycles :
        (Terminated(c) /\ failures[c] < retry_limit /\ ~OtherFault(c)) =>
            /\ pc[c] = "Ok"
            /\ files[fmi[c]] = Artifact(fmi[c])
            /\ wrote[c] = Artifact(fmi[c])
            /\ gets[c] - 1 = failures[c]
            /\ retry_num[c] - InitialRetryNum = failures[c]


\* C6: every GET carries Range: bytes=N- where N is the number of bytes the
\* transfer has written to its file so far: 0 for the first GET, and never 0
\* again once a chunk has been written.
C6_RangeIsBytesWritten ==
    \A c \in Cycles :
        gets[c] > 0 =>
            /\ lastGet[c][1] = lastGet[c][2]
            /\ (gets[c] = 1 => lastGet[c][1] = 0)
            /\ (pc[c] = "request" => saved[c] = Len(wrote[c]))

\* a retry asked for the bytes from the middle of the artifact on
C6_Witness ==
    \E c \in Cycles :
        gets[c] >= 2 /\ lastGet[c][1] > 0 /\ lastGet[c][1] < ArtifactLen

\* C7: the stream error that ends a transfer is its fifth; the transfer then
\* returns the error, and the file holds what the transfer wrote, no less
\* and no more.
C7_ExhaustedLeavesPartial ==
    \A c \in Cycles :
        /\ failures[c] <= retry_limit
        /\ (failures[c] = retry_limit) = (outcome[c] = "stream")
        /\ outcome[c] = "stream" =>
            /\ pc[c] = "Err"
            /\ files[fmi[c]] = wrote[c]
            /\ Len(wrote[c]) = saved[c]

\* a transfer gave up at its fifth stream error with part of the artifact
\* written
C7_Witness ==
    \E c \in Cycles :
        /\ pc[c] = "Err" /\ outcome[c] = "stream" /\ failures[c] = retry_limit
        /\ Len(wrote[c]) > 0 /\ Len(wrote[c]) < ArtifactLen

\* C8: a transfer issues at most retry_limit GETs, one more than the stream
\* errors it met at most; retry_num counts every stream error of the
\* transfer, whatever was written in between.
C8_AtMostLimitGets ==
    \A c \in Cycles :
        /\ gets[c] <= retry_limit
        /\ gets[c] <= failures[c] + 1
        /\ pc[c] \notin {"none", "create"} =>
            retry_num[c] = InitialRetryNum + failures[c]
                           - (IF outcome[c] = "stream" THEN 1 ELSE 0)

\* the fifth GET of a transfer whose retries had chunks written in between
C8_Witness ==
    \E c \in Cycles :
        gets[c] = retry_limit /\ failures[c] = retry_limit - 1 /\ lastGet[c][1] > 0 /\ pc[c] = "stream"

\* C9 (as stated): every transfer that ends, with success or with an error,
\* has invoked the notifier.
C9_NotifiesWhateverOutcome ==
    \A c \in Cycles : Terminated(c) => sends[c] >= 1

\* C9 (amended): a transfer that returns success has invoked the notifier
\* once before it ends; a transfer that ends with a propagated error has not
\* invoked it.
C9_NotifiesOnSuccessOnly ==
    \A c \in Cycles :
        /\ pc[c] = "Ok" => sends[c] = 1
        /\ pc[c] = "Err" => sends[c] = 0

\* a transfer that met a broken stream on its way returned success, one send
\* behind it
C9_Witness ==
    \E c \in Cycles : pc[c] = "Ok" /\ sends[c] = 1 /\ failures[c] > 0

\* C10: a completion message is sent only by a transfer whose stream ended
\* cleanly and whose file was flushed before; no transfer that ends with an
\* error has sent one.
C10_MessageMeansSuccess ==
    \A c \in Cycles :
        sends[c] > 0 =>
            /\ flushed[c]
            /\ stream[c] = <<>>
            /\ pc[c] \in {"sent", "Ok"}
            /\ outcome[c] = IF pc[c] = "Ok" THEN "ok" ELSE "none"

\* a transfer sent its message after it wrote and flushed the whole artifact
C10_Witness ==
    \E c \in Cycles : sends[c] = 1 /\ flushed[c] /\ wrote[c] = Artifact(fmi[c])

\* C11 (as stated): partial_cmp orders two records by publish time alone:
\* Less when the left one is older, Greater when it is newer, Equal when the
\* two publish times are equal.
C11_OrderedByPublishDate ==
    result.op = "partial_cmp" =>
        result.v = (IF recA.pub_date < recB.pub_date THEN "Less"
                    ELSE IF recA.pub_date > recB.pub_date THEN "Greater"
                    ELSE "Equal")

\* C12: two records whose MD5 texts are equal and not empty compare equal,
\* whatever their publish times, download links, names and public URLs.
C12_EqualHashMeansEqual ==
    (result.op = "eq" /\ recA.md5 # <<>> /\ recA.md5 = recB.md5)
        => result.v = TRUE
\* two records equal by hash that differ in every other field
C12_Witness ==
    /\ result.op = "eq" /\ result.v = TRUE
    /\ recA.pub_date # recB.pub_date
    /\ recA.download_url # recB.download_url
    /\ recA.name # recB.name
    /\ recA.static_file_url # recB.static_file_url

\* the first entry supplies every required field
Complete(item) ==
    /\ item.pub_date.some /\ item.pub_date.v.fmt = "rfc2822"
    /\ item.link.some
    /\ item.hash.depth = HashDepth
    /\ item.title.some
    /\ item.title.v # <<>> /\ item.title.v[Len(item.title.v)] # ".."
\* the messages that name something that was not found
NotFoundNames ==
    {"latest rom not found", "pub date not found", "link not found",
     "media not found", "content not found",
     "content first extension not found", "hash not found",
     "hash first extension not found", "md5 not found", "title not found",
     "file name not found", "file name can not to str"}
\* every required item of the first entry is there, its date is not RFC 2822
OnlyDateUnparseable(items) ==
    /\ items # <<>>
    /\ items[1].pub_date.some
    /\ ~Complete(items[1])
    /\ Complete([items[1] EXCEPT !.pub_date =
                    Some([fmt |-> "rfc2822", t |-> 0])])
\* a feed that was fetched and is RSS was resolved
ResolvedFeed == result.op = "get_latest_file" /\ feed.fetched /\ feed.rss
\* an error carries a message and nothing else: no record, not even a partial one
NoRecord(r) == DOMAIN r = {"ok", "err"}
\* the record is the one the first entry describes
RecordOf(item, r) ==
    /\ r \in FileMetaInfo
    /\ r.pub_date = item.pub_date.v.t
    /\ r.download_url = item.link.v
    /\ r.md5 = item.hash.md5
    /\ r.name = item.title.v[Len(item.title.v)]
    /\ r.static_file_url = <<"repo", r.name>>

\* C14 (as stated): resolve returns a record only when the feed has an entry
\* and the first entry supplies every required field; otherwise it returns an
\* error naming what was not found, and no record.
C14_ErrorNamesWhatIsMissing ==
    ResolvedFeed =>
        /\ result.v.ok <=> (feed.items # <<>> /\ Complete(feed.items[1]))
        /\ ~result.v.ok => NoRecord(result.v) /\ result.v.err \in NotFoundNames

\* C14 (amended): resolve returns a record, the one its first entry describes,
\* only when the feed has an entry and the first entry supplies every required
\* field; otherwise it returns no record but an error, which names what was
\* not found when an entry or a field is absent, and is the date parser's own
\* error, which names nothing, when only the publish date does not parse.
C14_RecordOnlyFromCompleteFirstEntry ==
    ResolvedFeed =>
        /\ result.v.ok <=> (feed.items # <<>> /\ Complete(feed.items[1]))
        /\ result.v.ok => RecordOf(feed.items[1], result.v.v)
        /\ ~result.v.ok =>
              /\ NoRecord(result.v)
              /\ IF OnlyDateUnparseable(feed.items)
                 THEN result.v.err = "ParseError"
                 ELSE result.v.err \in NotFoundNames
\* a first entry whose date does not parse, before a complete second entry
C14_Witness ==
    /\ ResolvedFeed
    /\ Len(feed.items) > 1 /\ Complete(feed.items[2])
    /\ OnlyDateUnparseable(feed.items)
    /\ ~result.v.ok

\* resolve failed in cycle c
ResolveFailed(c) == fmi[c] = NoName /\ Len(ctrace[c]) > 2

\* C13: a cycle whose resolve failed went Idle -> Resolving -> Idle: it made
\* no dedup check, spawned no transfer and its (never started) transfer
\* created no file and sent no request; the scheduler is not stopped by it:
\* while ticks remain the next one can fire, and a later cycle that is
\* resolving can succeed whatever happened to the earlier ones.
C13_ResolveErrorEndsCycleOnly ==
    \A c \in Cycles :
        /\ ResolveFailed(c) =>
              /\ ctrace[c] = PathAborted
              /\ seen[c] = Unchecked
              /\ spawned[c] = 0
              /\ pc[c] = "none" /\ gets[c] = 0 /\ wrote[c] = <<>>
              /\ ticks < tickLimit => ENABLED Tick
        /\ (cstate[c] = "Resolving" /\ \E b \in 1..(c - 1) : ResolveFailed(b))
              => ENABLED ResolveOk(c)
\* the first cycle was aborted, the second one resolved and spawned a transfer
C13_Witness ==
    \E b, c \in Cycles :
        /\ b < c
        /\ ResolveFailed(b) /\ cstate[b] = "Idle"
        /\ Resolved(c) /\ spawned[c] = 1 /\ files[fmi[c]] = Artifact(fmi[c])

\* a file exists at the destination named n
Exists(n) == files[n] # NoFile

\* C15: no step of the engine (tick, resolve, check, create, request, write,
\* retry, failure, flush, notification) takes a destination that exists to one
\* that does not.
C15_ExistenceNeverReverted ==
    [][\A n \in FileNames : Exists(n) => Exists(n)']_vars
\* a transfer failed after it had created its file, which is still there
C15_Witness ==
    \E c \in Cycles :
        /\ pc[c] = "Err" /\ outcome[c] \in {"request", "write", "flush"}
        /\ seen[c] = NoFile
        /\ Exists(fmi[c])

\* transfer c ended with an error after File::create had succeeded
FailedAfterCreate(c) ==
    pc[c] = "Err" /\ outcome[c] \in {"request", "write", "stream", "flush"}
\* cycle d makes its dedup check in this step
Checks(d) == seen[d] = Unchecked /\ seen'[d] # Unchecked

\* C16 (as stated): once a transfer has ended with a fatal error after creating
\* its file, the file it left stays as it is, every cycle that checks the same
\* name afterwards is Skipped and spawns nothing, and the artifact is never
\* completed at that destination.
C16_FailedFileStaysForever ==
    [][\A c \in Cycles :
          FailedAfterCreate(c) =>
              /\ files'[fmi[c]] = files[fmi[c]]
              /\ (files[fmi[c]] # Artifact(fmi[c])
                     => files'[fmi[c]] # Artifact(fmi[c]))
              /\ \A d \in Cycles :
                    (Checks(d) /\ fmi[d] = fmi[c])
                        => cstate'[d] = "Skipped" /\ spawned'[d] = 0]_vars

\* C17: when the notifier refuses the message, the transfer has nevertheless
\* returned Ok, it has attempted the send exactly once, and the file holds
\* what the transfer wrote; and no transfer ever attempts a second send.
C17_SendFailureIsLoggedOnly ==
    \A c \in Cycles :
        /\ sends[c] <= 1
        /\ delivered[c] = "failed" =>
              /\ pc[c] = "Ok" /\ outcome[c] = "ok"
              /\ sends[c] = 1
              /\ flushed[c]
              /\ files[fmi[c]] = wrote[c]
\* a transfer that wrote the whole artifact and whose message was refused
C17_Witness ==
    \E c \in Cycles :
        /\ delivered[c] = "failed" /\ pc[c] = "Ok"
        /\ files[fmi[c]] = Artifact(fmi[c])

\* transfer c returns Ok(()) in this step
ReturnsOk(c) == pc[c] = "sent" /\ pc'[c] = "Ok"

\* C18 (as stated): under every interleaving, two transfers racing on one
\* destination included, at the moment a transfer returns success (its
\* message sent) the destination holds exactly the bytes of the artifact.
C18_SuccessMeansCompleteFile ==
    [][\A c \in Cycles :
          ReturnsOk(c) => files'[fmi[c]] = Artifact(fmi[c])]_vars

\* C19: a transfer in which File::create, the GET, a write or the flush
\* failed has ended with the error at once: it does nothing more, its retry
\* counter holds one increment per broken stream and none for the failure,
\* it issued no GET after the failure (one GET per broken stream, plus the
\* first), and it sent no message; a broken stream below the limit, on the
\* contrary, leads to the next GET.
C19_OnlyStreamErrorsRetry ==
    \A c \in Cycles :
        /\ OtherFault(c) =>
              /\ pc[c] = "Err"
              /\ retry_num[c] = InitialRetryNum + failures[c]
              /\ gets[c] <= failures[c] + 1
              /\ sends[c] = 0
              /\ ~ENABLED (Request(c) \/ Execute(c) \/ ReadChunk(c)
                              \/ ReadError(c) \/ ReadEnd(c) \/ Flush(c)
                              \/ Send(c) \/ Answer(c))
        /\ (pc[c] = "request" /\ gets[c] > 0) =>
              /\ gets[c] = failures[c]
              /\ retry_num[c] = InitialRetryNum + failures[c]
              /\ outcome[c] = "none"
\* a write failed after the stream had broken twice
C19_Witness ==
    \E c \in Cycles :
        /\ outcome[c] = "write" /\ pc[c] = "Err"
        /\ failures[c] = 2 /\ retry_num[c] = 3

\* C20 (as stated): a transfer's File::create, when it succeeds, leaves an empty file and
\* comes before the transfer's first GET, so that the destination exists
\* whenever the transfer has issued a GET, and a cycle that checks the same
\* name from then on is Skipped and spawns nothing; a transfer whose
\* File::create fails never issues a GET, and the failing call leaves save_dir
\* as it was: it creates no file.
C20_CreatedBeforeFirstGet ==
    [][\A c \in Cycles :
          /\ (pc[c] = "create" /\ pc'[c] = "request")
                => files'[fmi[c]] = <<>> /\ gets[c] = 0
          /\ (gets[c] = 0 /\ gets'[c] = 1) => Exists(fmi[c])
          /\ gets'[c] > 0 => Exists(fmi[c])'
          /\ \A d \in Cycles :
                (gets[c] > 0 /\ Checks(d) /\ fmi[d] = fmi[c])
                    => cstate'[d] = "Skipped" /\ spawned'[d] = 0
          /\ outcome'[c] = "create" =>
                /\ gets'[c] = 0
                /\ outcome[c] # "create" => files' = files]_vars

====
